---- MODULE Spec2Model ----
(***************************************************************************)
(* State-machine model of DAppClient (beacon-sdk): the table of open       *)
(* requests, the dispatch of inbound messages (handleResponse), the        *)
(* active-account cell (getActiveAccount / setActiveAccount) and the       *)
(* request pipeline (requestPermissions, requestSignPayload,               *)
(* requestOperation, requestBroadcast, makeRequest).                       *)
(*                                                                         *)
(* JavaScript runs one continuation at a time: every action below is the   *)
(* code that runs between two awaits of one async call.                    *)
(***************************************************************************)
EXTENDS Integers, Sequences, FiniteSets, Bags, TLC

(***************************************************************************)
(* Bounds of the model.                                                    *)
(***************************************************************************)
\* number of ids generateGUID produces: the requests that get registered
MaxIds == 2
\* number of independent getActiveAccount() callers
MaxReaders == 1
\* number of setActiveAccount invocations over the client's life
MaxSets == 3
\* number of handleResponse calls suspended in the disconnect branch at a time
MaxClosing == 2
\* number of requests followed while both wallets disconnect (SpecDispatch)
MaxDispatched == 1

(***************************************************************************)
(* Values.                                                                 *)
(***************************************************************************)
\* the JavaScript value undefined
Undefined == "undefined"

\* the application's tasks that issue requests, each one request at a time
Calls == {1, 2}
Readers == 1 .. MaxReaders
\* ids produced by generateGUID, and one id the client never generated
Ids == 1 .. MaxIds
ForeignId == 0
\* no id at all
NoId == 0 - 1

Peers == {"p1", "p2"}

\* PermissionScope
SIGN == "sign"
OPERATION_REQUEST == "operation_request"

\* TransportType
P2P == "p2p"
POST_MESSAGE == "post_message"

\* BeaconMessageType
PermissionRequest == "permission_request"
SignPayloadRequest == "sign_payload_request"
OperationRequest == "operation_request"
BroadcastRequest == "broadcast_request"
PermissionResponse == "permission_response"
SignPayloadResponse == "sign_payload_response"
OperationResponse == "operation_response"
BroadcastResponse == "broadcast_response"
Error == "error"
Disconnect == "disconnect"

\* BeaconErrorType carried by an ErrorResponse, or undefined
NOT_GRANTED_ERROR == "NOT_GRANTED_ERROR"
ErrorTypes == {NOT_GRANTED_ERROR, Undefined}

\* BeaconEvent
INTERNAL_ERROR == "INTERNAL_ERROR"
LOCAL_RATE_LIMIT_REACHED == "LOCAL_RATE_LIMIT_REACHED"
NO_PERMISSIONS == "NO_PERMISSIONS"
P2P_CHANNEL_CLOSED == "P2P_CHANNEL_CLOSED"
ACTIVE_ACCOUNT_SET == "ACTIVE_ACCOUNT_SET"

\* beacon-message-events: messageEvents[type].sent, .success, .error
SentEvent(type) ==
    CASE type = PermissionRequest -> "PERMISSION_REQUEST_SENT"
      [] type = SignPayloadRequest -> "SIGN_REQUEST_SENT"
      [] type = OperationRequest -> "OPERATION_REQUEST_SENT"
      [] OTHER -> "BROADCAST_REQUEST_SENT"
SuccessEvent(type) ==
    CASE type = PermissionRequest -> "PERMISSION_REQUEST_SUCCESS"
      [] type = SignPayloadRequest -> "SIGN_REQUEST_SUCCESS"
      [] type = OperationRequest -> "OPERATION_REQUEST_SUCCESS"
      [] OTHER -> "BROADCAST_REQUEST_SUCCESS"
ErrorEvent(type) ==
    CASE type = PermissionRequest -> "PERMISSION_REQUEST_ERROR"
      [] type = SignPayloadRequest -> "SIGN_REQUEST_ERROR"
      [] type = OperationRequest -> "OPERATION_REQUEST_ERROR"
      [] OTHER -> "BROADCAST_REQUEST_ERROR"

(***************************************************************************)
(* Inbound messages.  A message arrives over the channel of the peer       *)
(* `from`: its senderId and the id of its connection context are that      *)
(* peer.  Fields a message type does not carry are undefined.              *)
(***************************************************************************)
PlainMessage(id, type, from) ==
    [id |-> id, type |-> type, senderId |-> from, publicKey |-> Undefined,
     scopes |-> {}, errorType |-> Undefined]

\* what the wallets grant: wallet p1 the account of key k1 with the scope sign,
\* wallet p2 the account of key k2 with the scope operation_request
Grants ==
    {[from |-> "p1", publicKey |-> "k1", scopes |-> {SIGN}],
     [from |-> "p2", publicKey |-> "k2", scopes |-> {OPERATION_REQUEST}]}

\* the replies that carry one of `ids`.  OperationResponse stands for the three
\* responses that carry no account; the client reads the sender of a permission
\* response and of a disconnect only, so the others come from one peer
RepliesFor(ids) ==
    {[PlainMessage(id, PermissionResponse, g.from) EXCEPT
            !.publicKey = g.publicKey, !.scopes = g.scopes] :
        <<id, g>> \in ids \X Grants}
    \cup {PlainMessage(id, OperationResponse, "p1") : id \in ids}
    \cup {[PlainMessage(id, Error, "p1") EXCEPT !.errorType = e] :
        <<id, e>> \in ids \X ErrorTypes}

\* the disconnect notifications that carry one of `ids`: wallet p2 is the one
\* that disconnects
DisconnectsFor(ids) == {PlainMessage(id, Disconnect, "p2") : id \in ids}

\* the disconnect notifications of the wallets `senders` that carry one of `ids`
DisconnectsFrom(ids, senders) ==
    {PlainMessage(id, Disconnect, from) : <<id, from>> \in ids \X senders}

ConnectionContext(message, origin) == [origin |-> origin, id |-> message.senderId]

(***************************************************************************)
(* Accounts.                                                               *)
(***************************************************************************)
getAddressFromPublicKey(publicKey) ==
    CASE publicKey = "k1" -> "tz1" [] publicKey = "k2" -> "tz2" [] OTHER -> Undefined
getAccountIdentifier(address) ==
    CASE address = "tz1" -> "account-tz1" [] address = "tz2" -> "account-tz2"
      [] OTHER -> Undefined

\* the value undefined where an AccountInfo is expected
UndefinedAccount ==
    [accountIdentifier |-> Undefined, publicKey |-> Undefined, scopes |-> {},
     origin |-> Undefined]

\* the AccountInfo requestPermissions builds from a permission response
AccountInfoOf(message, connectionInfo) ==
    [accountIdentifier |-> getAccountIdentifier(getAddressFromPublicKey(message.publicKey)),
     publicKey |-> message.publicKey,
     scopes |-> message.scopes,
     origin |-> connectionInfo.id]

\* an account persisted by an earlier session
StoredAccount ==
    [accountIdentifier |-> getAccountIdentifier(getAddressFromPublicKey("k1")),
     publicKey |-> "k1", scopes |-> {SIGN, OPERATION_REQUEST}, origin |-> "p1"]

\* another account persisted by an earlier session, granted by wallet p2
OtherStoredAccount ==
    [accountIdentifier |-> getAccountIdentifier(getAddressFromPublicKey("k2")),
     publicKey |-> "k2", scopes |-> {OPERATION_REQUEST}, origin |-> "p2"]

VARIABLES
    openRequests,     \* the keys of the Map openRequests
    promises,         \* the ExposedPromise created for each id
    settleOrder,      \* history: ids in the order handleResponse settled them
    cells,            \* every ExposedPromise _activeAccount has referred to
    activeAccount,    \* _activeAccount: index of the current cell in cells
    setLog,           \* history: the setActiveAccount invocations (count, first, last)
                      \* and the ACTIVE_ACCOUNT_SET events emitted
    storageActive,    \* storage[StorageKey.ACTIVE_ACCOUNT]
    accounts,         \* the accounts of accountManager
    transportType,    \* (await this.transport).type
    peers,            \* the peers the P2P transport knows
    loader,           \* the startup load of the constructor
    setter,           \* a setActiveAccount call of the application
    readers,          \* getActiveAccount calls of the application
    calls,            \* request calls of the application
    remover,          \* a removePeer or removeAllPeers call of the application
    dispatching,      \* bag of peers: one copy of message.senderId per
                      \* handleResponse call that awaits this.transport
    closing,          \* bag of peers: one copy per handleResponse call that
                      \* awaits the removal of the peer
    channelClosed,    \* history: P2P_CHANNEL_CLOSED has been emitted
    noRequestFound    \* history: the id last logged as 'no request found'

vars == <<openRequests, promises, settleOrder, cells, activeAccount, setLog,
          storageActive, accounts, transportType, peers,
          loader, setter, readers, calls, remover, dispatching, closing,
          channelClosed,
          noRequestFound>>

corrVars == <<openRequests, promises, settleOrder>>
gateVars == <<cells, activeAccount, setLog>>
envVars == <<transportType, peers, dispatching, closing, channelClosed, noRequestFound>>

(***************************************************************************)
(* ExposedPromise.                                                         *)
(***************************************************************************)
\* what an unsettled promise of a reply holds
NoReply ==
    [message |-> PlainMessage(ForeignId, Undefined, Undefined),
     connectionInfo |-> [origin |-> Undefined, id |-> Undefined]]
NoPromise == [status |-> "none", result |-> NoReply]
PendingPromise(empty) == [status |-> "pending", result |-> empty]
ResolvedPromise(value) == [status |-> "resolved", result |-> value]
RejectedPromise(reason) == [status |-> "rejected", result |-> reason]

isSettled(p) == p.status \in {"resolved", "rejected"}

\* resolve and reject leave a settled promise as it is
Resolve(p, value) == IF isSettled(p) THEN p ELSE ResolvedPromise(value)
Reject(p, reason) == IF isSettled(p) THEN p ELSE RejectedPromise(reason)

(***************************************************************************)
(* The active-account cell.                                                *)
(***************************************************************************)
\* the value a settled cell holds
CellValue(cell) == cells[cell].result

\* a cell nothing refers to any more
Collected == [status |-> "collected", result |-> UndefinedAccount]

\* the cells the pending getActiveAccount() calls hold
Held ==
    {calls[c].cell : c \in Calls} \cup {readers[r].cell : r \in Readers}
        \cup {remover.cell}

\* variant: setActiveAccount writes the value into the cell it finds
SetCellInPlace(account) ==
    [cells |-> [cells EXCEPT ![activeAccount] = ResolvedPromise(account)],
     active |-> activeAccount]

\* variant: setActiveAccount resolves the cell it finds and never replaces it
SetCellOnce(account) ==
    [cells |-> [cells EXCEPT ![activeAccount] = Resolve(@, account)],
     active |-> activeAccount]

\* variant: setActiveAccount always installs a new cell
SetCellFresh(account) ==
    [cells |-> Append(cells, ResolvedPromise(account)), active |-> Len(cells) + 1]

\* setActiveAccount up to its first await: a settled cell is replaced by a new
\* one resolved with `account`, an unsettled cell is resolved in place
SetCell(account) ==
    IF isSettled(cells[activeAccount])
    THEN [cells |-> Append(cells, ResolvedPromise(account)), active |-> Len(cells) + 1]
    ELSE [cells |-> [cells EXCEPT ![activeAccount] = Resolve(@, account)],
          active |-> activeAccount]

\* the startup load has not called setActiveAccount yet
LoaderPending == loader.pc \in {"get", "lookup"}

\* the model follows MaxSets invocations, one of them the startup load's
MaySet(isLoader) ==
    setLog.count + (IF LoaderPending /\ ~isLoader THEN 1 ELSE 0) < MaxSets

NoSets ==
    [count |-> 0, first |-> UndefinedAccount, last |-> UndefinedAccount, emitted |-> 0]

SetActiveAccountStart(account, isLoader) ==
    /\ MaySet(isLoader)
    /\ cells' = [i \in DOMAIN SetCell(account).cells |->
                    IF i = SetCell(account).active \/ i \in Held
                    THEN SetCell(account).cells[i] ELSE Collected]
    /\ activeAccount' = SetCell(account).active
    /\ setLog' = [count |-> setLog.count + 1,
                  first |-> IF setLog.count = 0 THEN account ELSE setLog.first,
                  last |-> account,
                  emitted |-> setLog.emitted]

\* setActiveAccount: events.emit(ACTIVE_ACCOUNT_SET, account)
EmitActiveAccountSet ==
    /\ setLog' = [setLog EXCEPT !.emitted = @ + 1]
    /\ UNCHANGED <<cells, activeAccount>>

\* variant: the absence marker is stored whatever the account
StoredIdentifierAbsent(account) == Undefined

\* storage.set(StorageKey.ACTIVE_ACCOUNT, ...)
StoredIdentifier(account) ==
    IF account # UndefinedAccount THEN account.accountIdentifier ELSE Undefined

(***************************************************************************)
(* accountManager.                                                         *)
(***************************************************************************)
getAccount(accountIdentifier) ==
    IF \E a \in accounts : a.accountIdentifier = accountIdentifier
    THEN CHOOSE a \in accounts : a.accountIdentifier = accountIdentifier
    ELSE UndefinedAccount

addAccount(accountInfo) ==
    {a \in accounts : a.accountIdentifier # accountInfo.accountIdentifier}
        \cup {accountInfo}

(***************************************************************************)
(* The startup load of the constructor.                                    *)
(***************************************************************************)
\* storage.get(ACTIVE_ACCOUNT) completes: with the stored value, or failing
LoaderGet ==
    /\ loader.pc = "get"
    /\ \E failed \in BOOLEAN :
        IF ~failed /\ loader.id # Undefined
        THEN /\ loader' = [loader EXCEPT !.pc = "lookup"]
             /\ UNCHANGED gateVars
        ELSE /\ SetActiveAccountStart(UndefinedAccount, TRUE)
             /\ loader' = [loader EXCEPT !.pc = "set_storage", !.account = UndefinedAccount]
    /\ UNCHANGED <<corrVars, storageActive, accounts, envVars, remover, setter, readers, calls>>

\* accountManager.getAccount(activeAccountIdentifier) completes
LoaderLookup ==
    /\ loader.pc = "lookup"
    /\ SetActiveAccountStart(getAccount(loader.id), TRUE)
    /\ loader' = [loader EXCEPT !.pc = "set_storage", !.account = getAccount(loader.id)]
    /\ UNCHANGED <<corrVars, storageActive, accounts, envVars, remover, setter, readers, calls>>

LoaderSetStorage ==
    /\ loader.pc = "set_storage"
    /\ storageActive' = StoredIdentifier(loader.account)
    /\ loader' = [loader EXCEPT !.pc = "set_emit"]
    /\ UNCHANGED <<corrVars, gateVars, accounts, envVars, remover, setter, readers, calls>>

LoaderSetEmit ==
    /\ loader.pc = "set_emit"
    /\ loader' = [loader EXCEPT !.pc = "done"]
    /\ EmitActiveAccountSet
    /\ UNCHANGED <<corrVars, storageActive, accounts, envVars, remover, setter, readers,
                   calls>>

(***************************************************************************)
(* setActiveAccount called by the application.                             *)
(***************************************************************************)
IdleSetter == [pc |-> "idle", account |-> UndefinedAccount]

setActiveAccount(account) ==
    /\ setter.pc = "idle"
    /\ SetActiveAccountStart(account, FALSE)
    /\ setter' = [pc |-> "set_storage", account |-> account]
    /\ UNCHANGED <<corrVars, storageActive, accounts, envVars, remover, loader, readers, calls>>

SetterSetStorage ==
    /\ setter.pc = "set_storage"
    /\ storageActive' = StoredIdentifier(setter.account)
    /\ setter' = [setter EXCEPT !.pc = "set_emit"]
    /\ UNCHANGED <<corrVars, gateVars, accounts, envVars, remover, loader, readers, calls>>

SetterSetEmit ==
    /\ setter.pc = "set_emit"
    /\ setter' = IdleSetter
    /\ EmitActiveAccountSet
    /\ UNCHANGED <<corrVars, storageActive, accounts, envVars, remover, loader, readers,
                   calls>>

(***************************************************************************)
(* getActiveAccount called by the application.                             *)
(***************************************************************************)
IdleReader ==
    [pc |-> "idle", cell |-> 0, sawSettled |-> FALSE, sawValue |-> UndefinedAccount,
     setsAtStart |-> 0, lastAtStart |-> UndefinedAccount, result |-> UndefinedAccount]

\* return this._activeAccount.promise: the caller holds the current cell
getActiveAccount(r) ==
    /\ readers[r].pc = "idle"
    /\ readers' = [readers EXCEPT ![r] =
            [pc |-> "waiting", cell |-> activeAccount,
             sawSettled |-> isSettled(cells[activeAccount]),
             sawValue |-> CellValue(activeAccount),
             setsAtStart |-> setLog.count, lastAtStart |-> setLog.last,
             result |-> UndefinedAccount]]
    /\ UNCHANGED <<corrVars, gateVars, storageActive, accounts, envVars, remover, loader, setter,
                   calls>>

\* the cell the caller holds is settled: the caller resumes with its value
ReaderReturn(r) ==
    /\ readers[r].pc = "waiting"
    /\ isSettled(cells[readers[r].cell])
    /\ readers' = [readers EXCEPT ![r].pc = "done", ![r].result = CellValue(readers[r].cell)]
    /\ UNCHANGED <<corrVars, gateVars, storageActive, accounts, envVars, remover, loader, setter,
                   calls>>

ReaderReset(r) ==
    /\ readers[r].pc = "done"
    /\ readers' = [readers EXCEPT ![r] = IdleReader]
    /\ UNCHANGED <<corrVars, gateVars, storageActive, accounts, envVars, remover, loader, setter,
                   calls>>

(***************************************************************************)
(* handleResponse: the dispatch of an inbound message.                     *)
(***************************************************************************)
\* variant: a matched disconnect notification rejects like an error
SettledByRejectingDisconnect(p, message, connectionInfo) ==
    IF message.type \in {Error, Disconnect}
    THEN Reject(p, [message |-> message, connectionInfo |-> NoReply.connectionInfo])
    ELSE Resolve(p, [message |-> message, connectionInfo |-> connectionInfo])

\* the promise of a matched id after openRequest.reject / openRequest.resolve
SettledBy(p, message, connectionInfo) ==
    IF message.type = Error
    THEN Reject(p, [message |-> message, connectionInfo |-> NoReply.connectionInfo])
    ELSE Resolve(p, [message |-> message, connectionInfo |-> connectionInfo])

\* the calls that hold the promise of an id
Awaiting(id) ==
    {c \in Calls : calls[c].id = id /\ calls[c].pc \in {"send", "sending", "await_reply"}}

\* a settled promise no call holds: its value is out of reach
Forget(p, id) == IF Awaiting(id) = {} THEN [p EXCEPT !.result = NoReply] ELSE p

\* variants of the table's operations, against which the properties of the
\* table are tried
\* variant: the entry stays in the table when its future is settled
OpenRequestsKept(id) == openRequests

\* variant: delete removes another entry than the settled one
OpenRequestsDeleteOther(id) == {i \in openRequests : i = id}

\* variant: the oldest open request is taken for the message, whatever its id
openRequestsGetOldest(id) ==
    IF openRequests = {} THEN NoId
    ELSE CHOOSE i \in openRequests : \A j \in openRequests : i <= j

\* variant: a message whose id is not in the table is taken for a reply to one
\* of the open requests
openRequestsGetFallback(id) ==
    IF id \in openRequests THEN id
    ELSE IF openRequests = {} THEN NoId
    ELSE CHOOSE i \in openRequests : \A j \in openRequests : i >= j

\* this.openRequests.get(message.id): the id whose promise is found, if any
openRequestsGet(id) == IF id \in openRequests THEN id ELSE NoId

\* this.openRequests.delete(message.id)
OpenRequestsAfterDelete(id) == openRequests \ {id}

\* variant: the transport keeps the peer
PeersKept(publicKey) == peers

\* transport.removePeer({publicKey: message.senderId})
PeersAfterRemove(publicKey) == peers \ {publicKey}

\* the handleResponse calls suspended in the disconnect branch
Suspended == BagCardinality(dispatching) + BagCardinality(closing)

\* handleResponse up to its first await: it settles the request it finds, or
\* logs, or, for a Disconnect with an id of no request, stops at
\* `await this.transport`.  The calls are not serialised: another dispatch may
\* run while this one is suspended, of the same peer too, and each suspended
\* call is one copy in `dispatching` or `closing`
handleResponse(message, connectionInfo) ==
    /\ IF openRequestsGet(message.id) # NoId
       THEN /\ promises' = [promises EXCEPT ![openRequestsGet(message.id)] =
                                Forget(SettledBy(@, message, connectionInfo),
                                       openRequestsGet(message.id))]
            /\ settleOrder' = Append(settleOrder, openRequestsGet(message.id))
            /\ openRequests' = OpenRequestsAfterDelete(message.id)
            /\ UNCHANGED <<dispatching, noRequestFound>>
       ELSE /\ IF message.type = Disconnect
               THEN /\ Suspended < MaxClosing
                    /\ dispatching' = dispatching (+) SetToBag({message.senderId})
                    /\ UNCHANGED noRequestFound
               ELSE /\ noRequestFound' = message.id
                    /\ UNCHANGED dispatching
            /\ UNCHANGED corrVars
    /\ UNCHANGED <<gateVars, storageActive, accounts, transportType, peers, closing,
                   channelClosed, loader, setter, readers, calls, remover>>

\* one handleResponse call resumes after `await this.transport`: over P2P it
\* calls transport.removePeer, which takes the peer from the registry, and
\* awaits it; over another transport it returns
HandleResponseTransport ==
    /\ \E peer \in BagToSet(dispatching) :
        /\ dispatching' = dispatching (-) SetToBag({peer})
        /\ IF transportType = P2P
           THEN /\ peers' = PeersAfterRemove(peer)
                /\ closing' = closing (+) SetToBag({peer})
           ELSE UNCHANGED <<peers, closing>>
    /\ UNCHANGED <<corrVars, gateVars, storageActive, accounts, transportType,
                   channelClosed, noRequestFound, loader, setter, readers, calls,
                   remover>>

\* one handleResponse call resumes after `await transport.removePeer(...)`: it
\* emits P2P_CHANNEL_CLOSED; the other calls go on awaiting
ChannelClosed ==
    /\ \E peer \in BagToSet(closing) : closing' = closing (-) SetToBag({peer})
    /\ channelClosed' = TRUE
    /\ UNCHANGED <<corrVars, gateVars, storageActive, accounts, transportType, peers,
                   dispatching, noRequestFound, loader, setter, readers, calls, remover>>

\* the ids of the requests registered so far
RegisteredIds == {i \in Ids : promises[i].status # "none"}

\* the ids generateGUID has produced so far: those of the promises created and
\* those a call holds before it has registered its request
GeneratedIds ==
    {i \in Ids : promises[i].status # "none" \/ \E c \in Calls : calls[c].id = i}

\* the transport delivers one of `messages`
Receive(messages) ==
    \E message \in messages :
        handleResponse(message, ConnectionContext(message, transportType))

(***************************************************************************)
(* The permission table.                                                   *)
(***************************************************************************)
\* utils/check-permissions: the scope a message type requires
checkPermissions(type, permissions) ==
    CASE type = OperationRequest -> OPERATION_REQUEST \in permissions
      [] type = SignPayloadRequest -> SIGN \in permissions
      [] type = BroadcastRequest -> TRUE
      [] OTHER -> FALSE

(***************************************************************************)
(* Request calls.  calls[c].pc is the await the call is suspended at.      *)
(***************************************************************************)
\* cell: the cell a pending getActiveAccount() of the call holds (0: none);
\* account: the accountInfo requestPermissions builds; limited: the rate
\* limiter's answer.  The other fields record what the call has done
\* (rejectedWith: the errorType of the Error Response its promise was rejected
\* with, "none" when it was not rejected; setsAtInstall: how many
\* setActiveAccount invocations there were when the call had made its own).  The
\* fields of the request (network, sourceAddress, ...) are not modelled.
IdleCall ==
    [pc |-> "idle", type |-> Undefined, input |-> Undefined, cell |-> 0,
     account |-> UndefinedAccount, id |-> ForeignId, limited |-> FALSE,
     events |-> {}, outcome |-> "none", wraps |-> 0, rejectedWith |-> "none",
     absentAtStart |-> FALSE, setsAtInstall |-> 0,
     connectedBy |-> FALSE, rateChecked |-> FALSE, permRead |-> FALSE, sent |-> FALSE]

othersUnchanged ==
    UNCHANGED <<storageActive, accounts, envVars, remover, loader, setter, readers>>

\* the calls that may still ask generateGUID for an id
Unregistered ==
    {c \in Calls : calls[c].pc \in {"await_account", "connect", "perm", "guid"}}

\* a task starts a call when it has none running (the second task when the first
\* is busy: the tasks are alike); the model follows calls while ids are left
CanStart(c) ==
    /\ calls[c].pc = "idle"
    /\ IF c = 1 THEN TRUE ELSE calls[1].pc # "idle"
    /\ Cardinality(GeneratedIds) + Cardinality(Unregistered) < MaxIds

\* variant: only a field that is not there counts as missing
FalsyUndefinedOnly(value) == value = Undefined

\* !input.payload, !input.operationDetails, !input.signedTransaction
Falsy(value) == value \in {"", Undefined}
InputValues == {"", "data"}

\* BeaconError.getError
getError(errorType) ==
    CASE errorType = NOT_GRANTED_ERROR -> "NotGrantedBeaconError"
      [] OTHER -> "UnknownBeaconError"

\* handleRequestError: the error the request method throws, the events it emits
handleRequestErrorOutcome(raw, errorType) ==
    IF errorType # Undefined THEN getError(errorType) ELSE raw
handleRequestErrorEvents(type, errorType) ==
    IF errorType # Undefined THEN {ErrorEvent(type)} ELSE {}

\* the call ends throwing `outcome`, having emitted `events`.  `throw
\* this.sendInternalError(..)` and `throw this.handleRequestError(..)` throw the
\* promise an async method returns, which rejects with the error: wraps is the
\* number of promises around the error the caller gets
Thrown(call, outcome, wraps, events) ==
    [call EXCEPT !.pc = "done", !.outcome = outcome, !.wraps = wraps,
                 !.events = @ \cup events]

\* the active account is settled to undefined
ActiveAccountAbsent ==
    isSettled(cells[activeAccount]) /\ CellValue(activeAccount) = UndefinedAccount

\* the first statements of a request method: it throws on a missing input
\* (sendInternalError emits INTERNAL_ERROR), or runs up to its first await
AfterValidation(call, pc, cell) ==
    IF Falsy(call.input)
    THEN Thrown(call, "InvalidInput", 1, {INTERNAL_ERROR})
    ELSE [call EXCEPT !.pc = pc, !.cell = cell]

Begin(c, type, input, pc, cell) ==
    /\ CanStart(c)
    /\ calls' = [calls EXCEPT ![c] =
            AfterValidation(
                [IdleCall EXCEPT !.type = type, !.input = input,
                    !.absentAtStart = type # PermissionRequest /\ ActiveAccountAbsent],
                pc, cell)]
    /\ UNCHANGED <<corrVars, gateVars>>
    /\ othersUnchanged

\* requestPermissions up to makeRequest's await this.init()
requestPermissions(c) == Begin(c, PermissionRequest, "data", "connect", 0)

\* requestSignPayload up to await this.getActiveAccount()
requestSignPayload(c, payload) ==
    Begin(c, SignPayloadRequest, payload, "await_account", activeAccount)

\* requestOperation up to await this.getActiveAccount()
requestOperation(c, operationDetails) ==
    Begin(c, OperationRequest, operationDetails, "await_account", activeAccount)

\* requestBroadcast up to makeRequest's await this.init()
requestBroadcast(c, signedTransaction) ==
    Begin(c, BroadcastRequest, signedTransaction, "connect", 0)

\* requestSignPayload, requestOperation: getActiveAccount() has returned
AfterAccount(call, activeAccountValue) ==
    IF activeAccountValue = UndefinedAccount
    THEN Thrown([call EXCEPT !.cell = 0], "NoActiveAccount", 1, {INTERNAL_ERROR})
    ELSE [call EXCEPT !.pc = "connect", !.cell = 0]

AwaitAccount(c) ==
    /\ calls[c].pc = "await_account"
    /\ isSettled(cells[calls[c].cell])
    /\ calls' = [calls EXCEPT ![c] = AfterAccount(@, CellValue(@.cell))]
    /\ UNCHANGED <<corrVars, gateVars>>
    /\ othersUnchanged

\* generateGUID: an id no request has carried
FreshId == CHOOSE i \in Ids \ GeneratedIds : \A j \in Ids \ GeneratedIds : i <= j

\* variant: the promise is created but not entered in the table
addOpenRequestSkipped(id) == openRequests

\* addOpenRequest: this.openRequests.set(id, promise)
addOpenRequest(id) == openRequests \cup {id}

\* makeRequest goes on as `next` says: it has thrown, or awaits the active
\* account in checkPermissions ("perm"), or has passed the checks and runs up
\* to `await generateGUID()` ("guid")
Proceed(c, next) ==
    /\ calls' = [calls EXCEPT ![c] = next]
    /\ UNCHANGED corrVars

\* variant: makeRequest goes on whatever the scopes of the account
AfterCheckPermissionsAnyScope(call, account) ==
    IF account = UndefinedAccount
    THEN Thrown([call EXCEPT !.cell = 0, !.permRead = TRUE],
                "NoActiveAccount", 2, {INTERNAL_ERROR})
    ELSE [call EXCEPT !.pc = "guid", !.cell = 0, !.permRead = TRUE]

\* variant: makeRequest goes on without an active account
AfterCheckPermissionsNoAccount(call, account) ==
    IF ~checkPermissions(call.type, account.scopes)
    THEN Thrown([call EXCEPT !.cell = 0, !.permRead = TRUE],
                "NoPermission", 1, {NO_PERMISSIONS})
    ELSE [call EXCEPT !.pc = "guid", !.cell = 0, !.permRead = TRUE]

\* makeRequest after checkPermissions, which has read `account`
AfterCheckPermissions(call, account) ==
    IF account = UndefinedAccount
    THEN Thrown([call EXCEPT !.cell = 0, !.permRead = TRUE],
                "NoActiveAccount", 2, {INTERNAL_ERROR})
    ELSE IF ~checkPermissions(call.type, account.scopes)
    THEN Thrown([call EXCEPT !.cell = 0, !.permRead = TRUE],
                "NoPermission", 1, {NO_PERMISSIONS})
    ELSE [call EXCEPT !.pc = "guid", !.cell = 0, !.permRead = TRUE]

\* variant: makeRequest goes on whatever the rate limiter answers
AfterRateLimitIgnored(call, cell) ==
    IF call.type = PermissionRequest
    THEN [call EXCEPT !.pc = "guid"]
    ELSE [call EXCEPT !.pc = "perm", !.cell = cell]

\* makeRequest after the rate limiter's answer: it throws, or calls
\* checkPermissions, which returns true for a permission request and runs up to
\* its await this.getActiveAccount() for the others
AfterRateLimit(call, cell) ==
    IF call.limited
    THEN Thrown(call, "RateLimitReached", 1, {LOCAL_RATE_LIMIT_REACHED})
    ELSE IF call.type = PermissionRequest
    THEN [call EXCEPT !.pc = "guid"]
    ELSE [call EXCEPT !.pc = "perm", !.cell = cell]

\* makeRequest: init and connect have returned; addRequestAndCheckIfRateLimited
\* answers `limited`
MakeRequestConnect(c, limited) ==
    /\ calls[c].pc = "connect"
    /\ Proceed(c, AfterRateLimit([calls[c] EXCEPT !.connectedBy = TRUE,
                                     !.rateChecked = TRUE, !.limited = limited],
                                 activeAccount))
    /\ UNCHANGED gateVars
    /\ othersUnchanged

\* checkPermissions resumes with the active account; makeRequest acts on its answer
CheckPermissions(c) ==
    /\ calls[c].pc = "perm"
    /\ isSettled(cells[calls[c].cell])
    /\ Proceed(c, AfterCheckPermissions(calls[c], CellValue(calls[c].cell)))
    /\ UNCHANGED gateVars
    /\ othersUnchanged

\* makeRequest resumes after `await generateGUID()` with the id of the request
\* and runs up to `await this.beaconId`
MakeRequestGenerateGUID(c) ==
    /\ calls[c].pc = "guid"
    /\ calls' = [calls EXCEPT ![c].pc = "beacon_id", ![c].id = FreshId]
    /\ UNCHANGED <<corrVars, gateVars>>
    /\ othersUnchanged

\* makeRequest resumes after `await this.beaconId`: it creates the promise,
\* registers it under the id and runs up to await serialize
MakeRequestBeaconId(c) ==
    /\ calls[c].pc = "beacon_id"
    /\ promises' = [promises EXCEPT ![calls[c].id] = PendingPromise(NoReply)]
    /\ openRequests' = addOpenRequest(calls[c].id)
    /\ calls' = [calls EXCEPT ![c].pc = "send"]
    /\ UNCHANGED <<settleOrder, gateVars>>
    /\ othersUnchanged

\* makeRequest: the payload is serialized and transport.send is called
MakeRequestSend(c) ==
    /\ calls[c].pc = "send"
    /\ calls' = [calls EXCEPT ![c].pc = "sending", ![c].sent = TRUE]
    /\ UNCHANGED <<corrVars, gateVars>>
    /\ othersUnchanged

\* transport.send resolves: the sent event is emitted, the call awaits the reply
SendResolves(c) ==
    /\ calls[c].pc = "sending"
    /\ calls' = [calls EXCEPT ![c].pc = "await_reply",
                              ![c].events = @ \cup {SentEvent(calls[c].type)}]
    /\ UNCHANGED <<corrVars, gateVars>>
    /\ othersUnchanged

\* transport.send rejects: makeRequest throws the transport's error, which
\* handleRequestError throws on
AfterSendRejects(call) ==
    Thrown(call, handleRequestErrorOutcome("TransportFailure", Undefined), 1,
           handleRequestErrorEvents(call.type, Undefined))

\* the table of open requests after transport.send has rejected for `id`
OpenRequestsAfterSendRejects(id) == openRequests

SendRejects(c) ==
    /\ calls[c].pc = "sending"
    /\ calls' = [calls EXCEPT ![c] = AfterSendRejects(@)]
    /\ openRequests' = OpenRequestsAfterSendRejects(calls[c].id)
    /\ promises' = [promises EXCEPT ![calls[c].id].result = NoReply]
    /\ UNCHANGED <<settleOrder, gateVars>>
    /\ othersUnchanged

\* the request method after its promise is settled as p
AfterReply(call, p) ==
    IF p.status = "rejected"
    THEN Thrown([call EXCEPT !.rejectedWith = p.result.message.errorType],
                handleRequestErrorOutcome("ErrorResponse", p.result.message.errorType),
                1, handleRequestErrorEvents(call.type, p.result.message.errorType))
    ELSE IF call.type # PermissionRequest
    THEN [call EXCEPT !.pc = "done", !.outcome = "ok",
                      !.events = @ \cup {SuccessEvent(call.type)}]
    ELSE IF getAddressFromPublicKey(p.result.message.publicKey) = Undefined
    THEN Thrown(call, "InvalidPublicKey", 0, {})
    ELSE [call EXCEPT !.pc = "add_account",
                      !.account = AccountInfoOf(p.result.message, p.result.connectionInfo)]

\* the promise of the call's id is settled: the request method resumes with its
\* value, and nothing refers to the promise any more
ReplySettled(c) ==
    /\ calls[c].pc = "await_reply"
    /\ isSettled(promises[calls[c].id])
    /\ calls' = [calls EXCEPT ![c] = AfterReply(@, promises[calls[c].id])]
    /\ promises' = [promises EXCEPT ![calls[c].id].result = NoReply]
    /\ UNCHANGED <<openRequests, settleOrder, gateVars>>
    /\ othersUnchanged

\* requestPermissions: await this.accountManager.addAccount(accountInfo)
AddAccount(c) ==
    /\ calls[c].pc = "add_account"
    /\ accounts' = addAccount(calls[c].account)
    /\ calls' = [calls EXCEPT ![c].pc = "set_active"]
    /\ UNCHANGED <<corrVars, gateVars, storageActive, envVars, remover, loader, setter, readers>>

\* variant: requestPermissions goes on without installing the account
CallSetActiveSkipped(c) ==
    /\ calls[c].pc = "set_active"
    /\ UNCHANGED gateVars
    /\ calls' = [calls EXCEPT ![c].pc = "set_storage", ![c].setsAtInstall = setLog.count]
    /\ UNCHANGED <<corrVars, storageActive, accounts, envVars, remover, loader, setter, readers>>

\* requestPermissions: this.setActiveAccount(accountInfo) up to its first await
CallSetActive(c) ==
    /\ calls[c].pc = "set_active"
    /\ SetActiveAccountStart(calls[c].account, FALSE)
    /\ calls' = [calls EXCEPT ![c].pc = "set_storage", ![c].setsAtInstall = setLog.count + 1]
    /\ UNCHANGED <<corrVars, storageActive, accounts, envVars, remover, loader, setter, readers>>

CallSetStorage(c) ==
    /\ calls[c].pc = "set_storage"
    /\ storageActive' = StoredIdentifier(calls[c].account)
    /\ calls' = [calls EXCEPT ![c].pc = "set_emit"]
    /\ UNCHANGED <<corrVars, gateVars, accounts, envVars, remover, loader, setter, readers>>

\* ACTIVE_ACCOUNT_SET is emitted; requestPermissions notifies the success and returns
CallSetEmit(c) ==
    /\ calls[c].pc = "set_emit"
    /\ calls' = [calls EXCEPT ![c].pc = "done", ![c].outcome = "ok",
                              ![c].events = @ \cup {ACTIVE_ACCOUNT_SET,
                                                    SuccessEvent(PermissionRequest)}]
    /\ EmitActiveAccountSet
    /\ UNCHANGED <<corrVars, storageActive, accounts, envVars, remover, loader, setter,
                   readers>>

\* the application has the call's result
CallReturns(c) ==
    /\ calls[c].pc = "done"
    /\ calls' = [calls EXCEPT ![c] = IdleCall]
    /\ UNCHANGED <<corrVars, gateVars>>
    /\ othersUnchanged

(***************************************************************************)
(* removePeer, removeAllPeers and removeAccount called by the application. *)
(* A peer is named by its publicKey.  remover.pc is the await the call is  *)
(* suspended at.                                                           *)
(***************************************************************************)
\* peersToRemove, accountIdentifiersToRemove, cell: the locals of the call.
\* removing: the super.removeAccount(accountIdentifier) that removeAccount
\* started has not completed.  settledAtCall, activeAtCall: the active-account
\* cell as it was when the call was made
IdleRemover ==
    [pc |-> "idle", op |-> Undefined, peersToRemove |-> {},
     accountIdentifiersToRemove |-> {}, cell |-> 0, removing |-> FALSE,
     settledAtCall |-> FALSE, activeAtCall |-> UndefinedAccount]

removerOthersUnchanged ==
    UNCHANGED <<corrVars, transportType, dispatching, closing, channelClosed,
                noRequestFound,
                loader, setter, readers, calls>>

RemoverCalled(op, peersToRemove) ==
    [IdleRemover EXCEPT
        !.pc = "transport", !.op = op, !.peersToRemove = peersToRemove,
        !.settledAtCall = isSettled(cells[activeAccount]),
        !.activeAtCall = IF isSettled(cells[activeAccount])
                         THEN CellValue(activeAccount) ELSE UndefinedAccount]

\* removePeer(peer), up to its first await
removePeer(peer) ==
    /\ remover.pc = "idle"
    /\ remover' = RemoverCalled("removePeer", {peer})
    /\ UNCHANGED <<gateVars, storageActive, accounts, peers>>
    /\ removerOthersUnchanged

\* removeAllPeers(), up to its first await
removeAllPeers ==
    /\ remover.pc = "idle"
    /\ remover' = RemoverCalled("removeAllPeers", {})
    /\ UNCHANGED <<gateVars, storageActive, accounts, peers>>
    /\ removerOthersUnchanged

\* (await this.transport).type === TransportType.P2P: over another transport
\* the call returns; over P2P removePeer awaits the transport again before it
\* removes the peer, removeAllPeers awaits it and calls transport.getPeers()
RemoverTransport ==
    /\ remover.pc = "transport"
    /\ remover' = [remover EXCEPT !.pc =
            IF transportType # P2P THEN "done"
            ELSE IF remover.op = "removePeer" THEN "remove_peer" ELSE "peers"]
    /\ UNCHANGED <<gateVars, storageActive, accounts, peers>>
    /\ removerOthersUnchanged

\* removePeer after its second `await this.transport`: it calls
\* transport.removePeer(peer) and removeAccountsForPeers([peer])
RemoverRemovePeer ==
    /\ remover.pc = "remove_peer"
    /\ peers' = peers \ remover.peersToRemove
    /\ remover' = [remover EXCEPT !.pc = "accounts"]
    /\ UNCHANGED <<gateVars, storageActive, accounts>>
    /\ removerOthersUnchanged

\* transport.getPeers() completes: removeAllPeers holds the peers and awaits
\* the transport again
RemoverGetPeers ==
    /\ remover.pc = "peers"
    /\ remover' = [remover EXCEPT !.pc = "remove_all", !.peersToRemove = peers]
    /\ UNCHANGED <<gateVars, storageActive, accounts, peers>>
    /\ removerOthersUnchanged

\* removeAllPeers after `await this.transport`: it calls
\* transport.removeAllPeers() and removeAccountsForPeers(peers)
RemoverRemoveAllPeers ==
    /\ remover.pc = "remove_all"
    /\ peers' = {}
    /\ remover' = [remover EXCEPT !.pc = "accounts"]
    /\ UNCHANGED <<gateVars, storageActive, accounts>>
    /\ removerOthersUnchanged

\* the accounts with origin of one of the peers
AccountIdentifiersToRemove(peerIdsToRemove) ==
    {a.accountIdentifier : a \in {b \in accounts : b.origin \in peerIdsToRemove}}

\* accountManager.removeAccounts(accountIdentifiers)
removeAccounts(accountIdentifiers) ==
    {a \in accounts : a.accountIdentifier \notin accountIdentifiers}

\* accountManager.getAccounts() completes: removeAccountsForPeers selects the
\* accounts and calls accountManager.removeAccounts
RemoverGetAccounts ==
    /\ remover.pc = "accounts"
    /\ remover' = [remover EXCEPT
            !.pc = "remove",
            !.accountIdentifiersToRemove = AccountIdentifiersToRemove(remover.peersToRemove)]
    /\ UNCHANGED <<gateVars, storageActive, accounts, peers>>
    /\ removerOthersUnchanged

\* accountManager.removeAccounts completes: removeAccountsForPeers calls
\* getActiveAccount() and holds the current cell
RemoverRemoveAccounts ==
    /\ remover.pc = "remove"
    /\ accounts' = removeAccounts(remover.accountIdentifiersToRemove)
    /\ remover' = [remover EXCEPT !.pc = "active", !.cell = activeAccount]
    /\ UNCHANGED <<gateVars, storageActive, peers>>
    /\ removerOthersUnchanged

\* variant: the active account is never taken for a removed one
ActiveAccountKept(account, accountIdentifiers) == FALSE

\* if (activeAccount) if (accountIdentifiersToRemove.includes(...))
ActiveAccountRemoved(account, accountIdentifiers) ==
    /\ account # UndefinedAccount
    /\ account.accountIdentifier \in accountIdentifiers

\* the cell the call holds is settled: when the active account is one of the
\* removed accounts, removeAccountsForPeers calls setActiveAccount(undefined)
RemoverActive ==
    /\ remover.pc = "active"
    /\ isSettled(cells[remover.cell])
    /\ IF ActiveAccountRemoved(CellValue(remover.cell), remover.accountIdentifiersToRemove)
       THEN /\ SetActiveAccountStart(UndefinedAccount, FALSE)
            /\ remover' = [remover EXCEPT !.pc = "set_storage", !.cell = 0]
       ELSE /\ remover' = [remover EXCEPT !.pc = "result", !.cell = 0]
            /\ UNCHANGED gateVars
    /\ UNCHANGED <<storageActive, accounts, peers>>
    /\ removerOthersUnchanged

RemoverSetStorage ==
    /\ remover.pc = "set_storage"
    /\ storageActive' = StoredIdentifier(UndefinedAccount)
    /\ remover' = [remover EXCEPT !.pc = "set_emit"]
    /\ UNCHANGED <<gateVars, accounts, peers>>
    /\ removerOthersUnchanged

RemoverSetEmit ==
    /\ remover.pc = "set_emit"
    /\ remover' = [remover EXCEPT !.pc = "result"]
    /\ EmitActiveAccountSet
    /\ UNCHANGED <<storageActive, accounts, peers>>
    /\ removerOthersUnchanged

\* removeAccount(accountIdentifier), up to its first await: it starts
\* super.removeAccount(accountIdentifier), which it does not await, and calls
\* getActiveAccount(), holding the current cell
removeAccount(accountIdentifier) ==
    /\ remover.pc = "idle"
    /\ remover' = [RemoverCalled("removeAccount", {}) EXCEPT
            !.pc = "account_active",
            !.accountIdentifiersToRemove = {accountIdentifier},
            !.cell = activeAccount,
            !.removing = TRUE]
    /\ UNCHANGED <<gateVars, storageActive, accounts, peers>>
    /\ removerOthersUnchanged

\* super.removeAccount(accountIdentifier) completes: the account has left the
\* account store
RemoveAccountCompletes ==
    /\ remover.removing
    /\ accounts' = removeAccounts(remover.accountIdentifiersToRemove)
    /\ remover' = [remover EXCEPT !.removing = FALSE]
    /\ UNCHANGED <<gateVars, storageActive, peers>>
    /\ removerOthersUnchanged

\* the cell removeAccount holds is settled: when the active account is the
\* account to remove, removeAccount calls setActiveAccount(undefined)
RemoveAccountActive ==
    /\ remover.pc = "account_active"
    /\ isSettled(cells[remover.cell])
    /\ IF /\ CellValue(remover.cell) # UndefinedAccount
          /\ CellValue(remover.cell).accountIdentifier \in remover.accountIdentifiersToRemove
       THEN /\ SetActiveAccountStart(UndefinedAccount, FALSE)
            /\ remover' = [remover EXCEPT !.pc = "set_storage", !.cell = 0]
       ELSE /\ remover' = [remover EXCEPT !.pc = "result", !.cell = 0]
            /\ UNCHANGED gateVars
    /\ UNCHANGED <<storageActive, accounts, peers>>
    /\ removerOthersUnchanged

\* return removePeerResult, return removeAccountResult: the removal the call
\* started without awaiting it has completed
RemoverResult ==
    /\ remover.pc = "result"
    /\ ~remover.removing
    /\ remover' = [remover EXCEPT !.pc = "done"]
    /\ UNCHANGED <<gateVars, storageActive, accounts, peers>>
    /\ removerOthersUnchanged

\* the application has the call's result
RemoverReturns ==
    /\ remover.pc = "done"
    /\ remover' = IdleRemover
    /\ UNCHANGED <<gateVars, storageActive, accounts, peers>>
    /\ removerOthersUnchanged

(***************************************************************************)
(* The specification.                                                      *)
(***************************************************************************)
Init ==
    /\ openRequests = {}
    /\ promises = [i \in Ids |-> NoPromise]
    /\ settleOrder = <<>>
    /\ cells = <<PendingPromise(UndefinedAccount)>>
    /\ activeAccount = 1
    /\ setLog = NoSets
    /\ \E stored \in BOOLEAN, active \in BOOLEAN :
        /\ accounts = IF stored THEN {StoredAccount} ELSE {}
        /\ storageActive = IF stored /\ active THEN StoredAccount.accountIdentifier
                           ELSE Undefined
    /\ transportType \in {P2P, POST_MESSAGE}
    /\ peers = Peers
    /\ loader = [pc |-> "get", id |-> storageActive, account |-> UndefinedAccount]
    /\ setter = IdleSetter
    /\ readers = [r \in Readers |-> IdleReader]
    /\ calls = [c \in Calls |-> IdleCall]
    /\ remover = IdleRemover
    /\ dispatching = EmptyBag
    /\ closing = EmptyBag
    /\ channelClosed = FALSE
    /\ noRequestFound = NoId

\* what the application and the scheduler do with the tasks `tasks`
StartPermissions(tasks) == \E c \in tasks : requestPermissions(c)
StartSignPayload(tasks) ==
    \E c \in tasks, payload \in InputValues : requestSignPayload(c, payload)
StartOperation(tasks) ==
    \E c \in tasks, details \in {Undefined, "data"} : requestOperation(c, details)
StartBroadcast(tasks) == \E c \in tasks, tx \in InputValues : requestBroadcast(c, tx)
StepAwaitAccount(tasks) == \E c \in tasks : AwaitAccount(c)
StepConnect(tasks) == \E c \in tasks, limited \in BOOLEAN : MakeRequestConnect(c, limited)
StepCheckPermissions(tasks) == \E c \in tasks : CheckPermissions(c)
StepGenerateGUID(tasks) == \E c \in tasks : MakeRequestGenerateGUID(c)
StepBeaconId(tasks) == \E c \in tasks : MakeRequestBeaconId(c)
StepSend(tasks) == \E c \in tasks : MakeRequestSend(c)
StepSendResolves(tasks) == \E c \in tasks : SendResolves(c)
StepSendRejects(tasks) == \E c \in tasks : SendRejects(c)
StepReplySettled(tasks) == \E c \in tasks : ReplySettled(c)
StepAddAccount(tasks) == \E c \in tasks : AddAccount(c)
StepCallSetActive(tasks) == \E c \in tasks : CallSetActive(c)
StepCallSetStorage(tasks) == \E c \in tasks : CallSetStorage(c)
StepCallSetEmit(tasks) == \E c \in tasks : CallSetEmit(c)
StepCallReturns(tasks) == \E c \in tasks : CallReturns(c)

AppSetActiveAccount == \E account \in accounts \cup {UndefinedAccount} : setActiveAccount(account)
AppGetActiveAccount == \E r \in Readers : getActiveAccount(r)
ReaderReturns == \E r \in Readers : ReaderReturn(r)
ReaderResets == \E r \in Readers : ReaderReset(r)

LoaderNext == LoaderGet \/ LoaderLookup \/ LoaderSetStorage \/ LoaderSetEmit

\* makeRequest of one of `tasks` goes on from an await, up to the await of the
\* reply
RequestSteps(tasks) ==
    \/ StepConnect(tasks) \/ StepCheckPermissions(tasks)
    \/ StepGenerateGUID(tasks) \/ StepBeaconId(tasks)
    \/ StepSend(tasks) \/ StepSendResolves(tasks) \/ StepSendRejects(tasks)
    \/ StepCallReturns(tasks)

\* a request call of one of `tasks` goes on after its reply
ReplySteps(tasks) == StepReplySettled(tasks)

\* requestPermissions installs the account a wallet granted
GrantSteps(tasks) ==
    \/ StepAddAccount(tasks)
    \/ StepCallSetActive(tasks) \/ StepCallSetStorage(tasks) \/ StepCallSetEmit(tasks)

\* the request pipeline: one task issues requests of every kind, one after the
\* other, while the startup load runs and the wallets answer the requests that
\* have been registered (once or more often; messages that arrive between
\* generateGUID and the registration are followed under SpecCorr and
\* SpecDispatch).  The pipeline does not read the type of the transport: the
\* client is followed over the P2P transport
Next ==
    \/ LoaderNext
    \/ StartPermissions({1}) \/ StartSignPayload({1}) \/ StartOperation({1})
    \/ StartBroadcast({1})
    \/ StepAwaitAccount({1})
    \/ RequestSteps({1}) \/ ReplySteps({1}) \/ GrantSteps({1})
    \/ Receive(RepliesFor(RegisteredIds))

InitP2P == Init /\ transportType = P2P

Spec == InitP2P /\ [][Next]_vars

\* the table of open requests: two tasks have broadcast requests in flight at
\* the same time, and messages arrive that carry their ids or an id this client never
\* generated.  Of the startup load, the part that settles the active account
\* runs: its storage write and its event touch neither the table nor a call.
\* The table does not depend on the type of the transport: the client is
\* followed over the post-message transport.  The disconnects that arrive
\* carry the id of an open request; a disconnect with an id of no request
\* suspends at `await this.transport` and touches no table, which is followed
\* under SpecDispatch
CorrNext ==
    \/ LoaderGet \/ LoaderLookup
    \/ StartBroadcast(Calls)
    \/ RequestSteps(Calls) \/ ReplySteps(Calls)
    \/ Receive(RepliesFor(GeneratedIds \cup {ForeignId})
                  \cup DisconnectsFor(openRequests))

InitPostMessage == Init /\ transportType = POST_MESSAGE

SpecCorr == InitPostMessage /\ [][CorrNext]_vars

\* the active-account cell and its callers
GateNext ==
    \/ LoaderNext
    \/ AppSetActiveAccount \/ SetterSetStorage \/ SetterSetEmit
    \/ AppGetActiveAccount \/ ReaderReturns \/ ReaderResets

SpecGate == Init /\ [][GateNext]_vars

\* the promise callbacks of the startup load and of the callers run once their
\* promise is settled: the load goes on when accountManager.getAccount has
\* answered, a caller resumes when its cell is settled.  Nothing is assumed of
\* the storage read of the active-account key, nor of the application
SpecGateFair ==
    /\ SpecGate
    /\ WF_vars(LoaderLookup)
    /\ \A r \in Readers : WF_vars(ReaderReturn(r))

\* requests issued while the application sets the active account: one task
\* issues requests of every kind and the calls run up to the await of the reply
AbsentNext ==
    \/ LoaderNext
    \/ AppSetActiveAccount \/ SetterSetStorage \/ SetterSetEmit
    \/ StartPermissions({1}) \/ StartSignPayload({1}) \/ StartOperation({1})
    \/ StartBroadcast({1})
    \/ StepAwaitAccount({1})
    \/ RequestSteps({1})

SpecAbsent == Init /\ [][AbsentNext]_vars

\* the peers and their accounts: the application removes peers and the
\* wallets disconnect while the startup load runs.  Earlier sessions have
\* left up to two accounts, one of each wallet
InitPeers ==
    /\ openRequests = {}
    /\ promises = [i \in Ids |-> NoPromise]
    /\ settleOrder = <<>>
    /\ cells = <<PendingPromise(UndefinedAccount)>>
    /\ activeAccount = 1
    /\ setLog = NoSets
    /\ accounts \in SUBSET {StoredAccount, OtherStoredAccount}
    /\ storageActive \in {a.accountIdentifier : a \in accounts} \cup {Undefined}
    /\ transportType \in {P2P, POST_MESSAGE}
    /\ peers = Peers
    /\ loader = [pc |-> "get", id |-> storageActive, account |-> UndefinedAccount]
    /\ setter = IdleSetter
    /\ readers = [r \in Readers |-> IdleReader]
    /\ calls = [c \in Calls |-> IdleCall]
    /\ remover = IdleRemover
    /\ dispatching = EmptyBag
    /\ closing = EmptyBag
    /\ channelClosed = FALSE
    /\ noRequestFound = NoId

AppRemovePeer == \E peer \in Peers : removePeer(peer)

AppRemoveAccount ==
    \E account \in {StoredAccount, OtherStoredAccount} :
        removeAccount(account.accountIdentifier)

RemoverNext ==
    \/ RemoverTransport \/ RemoverRemovePeer
    \/ RemoverGetPeers \/ RemoverRemoveAllPeers
    \/ RemoverGetAccounts \/ RemoverRemoveAccounts \/ RemoverActive
    \/ RemoveAccountCompletes \/ RemoveAccountActive
    \/ RemoverSetStorage \/ RemoverSetEmit \/ RemoverResult \/ RemoverReturns

PeersNext ==
    \/ LoaderNext
    \/ AppRemovePeer \/ removeAllPeers \/ AppRemoveAccount \/ RemoverNext
    \/ Receive(DisconnectsFrom({ForeignId}, Peers))
    \/ HandleResponseTransport \/ ChannelClosed

SpecPeers == InitPeers /\ [][PeersNext]_vars

\* the task issues a broadcast request while requests are left to follow
DispatchStart ==
    /\ Cardinality(GeneratedIds) + Cardinality(Unregistered) < MaxDispatched
    /\ StartBroadcast({1})

\* the dispatch: one task has broadcast requests in flight, over either
\* transport, and messages of every kind arrive from both wallets, with the
\* ids of the requests or with an id this client never generated
DispatchNext ==
    \/ LoaderGet \/ LoaderLookup
    \/ DispatchStart
    \/ RequestSteps({1}) \/ ReplySteps({1})
    \/ Receive(RepliesFor(GeneratedIds \cup {ForeignId})
                  \cup DisconnectsFrom(GeneratedIds \cup {ForeignId}, Peers))
    \/ HandleResponseTransport \/ ChannelClosed

SpecDispatch == Init /\ [][DispatchNext]_vars

(***************************************************************************)
(* The table of open requests (checked under SpecCorr and Spec).           *)
(***************************************************************************)
\* the ids handleResponse has settled
SettledIds == {settleOrder[i] : i \in DOMAIN settleOrder}

\* C1: for every id and every sequence of inbound messages, handleResponse
\* settles (resolves or rejects) the future registered under the id at most
\* once: a second message with the same id does not settle it again
C1_SettledAtMostOnce ==
    \A i, j \in DOMAIN settleOrder : settleOrder[i] = settleOrder[j] => i = j

\* a future has been resolved and a later message with its id was logged as
\* 'no request found'
C1_SecondMessageDropped ==
    \E id \in Ids :
        /\ promises[id].status = "resolved"
        /\ id \in SettledIds
        /\ noRequestFound = id

\* C2: in every reachable state an id whose future is settled is absent from
\* openRequests, so a later message with that id finds no request
C2_SettledIsAbsent ==
    \A id \in Ids :
        (isSettled(promises[id]) \/ id \in SettledIds)
            => /\ id \notin openRequests
               /\ openRequestsGet(id) = NoId

\* a future has been rejected, its id is absent from the table, and a later
\* message with that id took the unmatched branch
C2_RejectedThenUnmatched ==
    \E id \in Ids :
        /\ promises[id].status = "rejected"
        /\ id \notin openRequests
        /\ noRequestFound = id

\* C3: when two distinct ids a and b are pending at the same time, the dispatch
\* of a message with id a settles the future of a only and leaves the entry of b
\* present and unsettled
C3_SettlesOnlyItsOwn ==
    [][\A a, b \in Ids :
          (/\ a # b
           /\ a \in openRequests /\ ~isSettled(promises[a])
           /\ b \in openRequests /\ ~isSettled(promises[b])
           /\ settleOrder' = Append(settleOrder, a))
              => /\ isSettled(promises'[a])
                 /\ a \notin openRequests'
                 /\ b \in openRequests'
                 /\ promises'[b] = promises[b]]_vars

\* both futures were pending at the same time (the id submitted first is
\* generated first) and the one submitted last was settled first
C3_SettledAgainstSubmissionOrder == settleOrder = <<2, 1>>

\* the two requests were pending at the same time and have been settled in the
\* order of their submission
C3_SettledInSubmissionOrder ==
    /\ settleOrder = <<1, 2>>
    /\ \A c \in Calls : calls[c].pc = "await_reply"

\* C4: when transport.send rejects after the entry was registered, the failure
\* is propagated as a rejection of the entry, and the entry is removed from
\* openRequests: no entry remains for a call that has failed
C4_SendFailureRejectsAndRemoves ==
    \A c \in Calls :
        (calls[c].pc = "done" /\ calls[c].outcome = "TransportFailure")
            => /\ calls[c].id \notin openRequests
               /\ isSettled(promises[calls[c].id])

\* a call has failed by transport.send rejecting
C4_SendFailed ==
    \E c \in Calls : calls[c].pc = "done" /\ calls[c].outcome = "TransportFailure"

(***************************************************************************)
(* The active-account cell (checked under SpecGate).                       *)
(***************************************************************************)
\* C5: a getActiveAccount() call made before any setActiveAccount() stays
\* suspended until the first setActiveAccount() and then yields that first
\* value; a caller that obtained a cell that was already settled yields the
\* value that was current when it started, also when setActiveAccount() is
\* called before it resumes, never the value assigned afterwards
C5_WaitersKeepTheirValue ==
    \A r \in Readers :
        /\ (readers[r].pc # "idle" /\ readers[r].setsAtStart = 0)
              => /\ setLog.count = 0 => readers[r].pc = "waiting"
                 /\ readers[r].pc = "done" => readers[r].result = setLog.first
        /\ (readers[r].pc = "done" /\ readers[r].sawSettled)
              => /\ readers[r].result = readers[r].sawValue
                 /\ readers[r].result = readers[r].lastAtStart

\* a caller obtained a settled cell, setActiveAccount() then assigned another
\* value, and the caller has resumed with the value of its cell
C5_LaterSetNotSeen ==
    \E r \in Readers :
        /\ readers[r].pc = "done"
        /\ readers[r].sawSettled
        /\ setLog.count > readers[r].setsAtStart
        /\ setLog.last # readers[r].result

\* a caller that started before any setActiveAccount() has resumed with the
\* first value, after a second value was assigned
C5_FirstSetSeen ==
    \E r \in Readers :
        /\ readers[r].pc = "done"
        /\ readers[r].setsAtStart = 0
        /\ setLog.count >= 2
        /\ readers[r].result = setLog.first
        /\ setLog.last # setLog.first

\* C6: a getActiveAccount() call that starts after setActiveAccount(v) and
\* before the next setActiveAccount() gets a cell that is already settled (it
\* waits for no further event) and yields v, whether v was set on a settled or
\* on an unsettled cell
C6_ReadAfterSetYieldsIt ==
    \A r \in Readers :
        (readers[r].pc # "idle" /\ readers[r].setsAtStart >= 1)
            => /\ readers[r].sawSettled
               /\ readers[r].sawValue = readers[r].lastAtStart
               /\ readers[r].pc = "done" => readers[r].result = readers[r].lastAtStart

\* a caller that started after a setActiveAccount(v) made on a settled cell has
\* resumed with v, which is not the first value
C6_SecondValueRead ==
    \E r \in Readers :
        /\ readers[r].pc = "done"
        /\ readers[r].setsAtStart >= 2
        /\ readers[r].result = readers[r].lastAtStart
        /\ readers[r].result # setLog.first

(***************************************************************************)
(* The request pipeline (checked under Spec and SpecAbsent).               *)
(***************************************************************************)
\* the step is one of call c
StepOf(c) == calls'[c] # calls[c]

\* the call has ended with `outcome` having emitted `event`, and it has
\* generated no id, registered no entry and handed nothing to the transport
AbortedUnsent(call, outcome, event) ==
    /\ call.pc = "done"
    /\ call.outcome = outcome
    /\ event \in call.events
    /\ call.id = ForeignId
    /\ ~call.sent

\* the active account lacks the scope a request of kind `type` requires
LacksScope(type, account) ==
    /\ account # UndefinedAccount
    /\ \/ type = SignPayloadRequest /\ SIGN \notin account.scopes
       \/ type = OperationRequest /\ OPERATION_REQUEST \notin account.scopes

\* C7: for every request kind other than permission request, when the active
\* account the permission check reads is present but its scopes do not contain
\* the scope the kind requires, the call aborts with the no-permission error,
\* NO_PERMISSIONS is emitted, no entry is added to openRequests and nothing is
\* handed to the transport
C7_MissingScopeAborts ==
    [][\A c \in Calls :
          (/\ calls[c].pc = "perm"
           /\ StepOf(c)
           /\ LacksScope(calls[c].type, CellValue(calls[c].cell)))
              => /\ AbortedUnsent(calls'[c], "NoPermission", NO_PERMISSIONS)
                 /\ UNCHANGED corrVars]_vars

\* requestOperation after a permission exchange that granted only sign has
\* ended with the no-permission error
C7_OperationWithSignOnly ==
    \E c \in Calls :
        /\ AbortedUnsent(calls[c], "NoPermission", NO_PERMISSIONS)
        /\ calls[c].type = OperationRequest
        /\ CellValue(activeAccount).scopes = {SIGN}
        /\ settleOrder # <<>>

\* C8 as amended: a permission request passes the permission check in every
\* state, also without an active account, unless the rate limiter stops it,
\* and a request that has passed the check gets its id and is registered;
\* every other request kind fails with the no-active-account
\* error, without registering an entry or sending, when the active account is
\* absent at the moment the call reads it (requestSignPayload and
\* requestOperation when they are issued, makeRequest in its permission check)
C8_AbsentWhenReadFails ==
    [][\A c \in Calls :
          /\ (/\ calls[c].pc = "connect"
              /\ calls[c].type = PermissionRequest
              /\ StepOf(c)
              /\ ~calls'[c].limited)
                 => /\ calls'[c].pc = "guid"
                    /\ ~calls'[c].permRead
          /\ (/\ calls[c].pc = "guid"
              /\ StepOf(c))
                 => /\ calls'[c].pc = "beacon_id"
                    /\ calls'[c].id \in Ids \ GeneratedIds
          /\ (/\ calls[c].pc = "beacon_id"
              /\ StepOf(c))
                 => /\ calls'[c].pc = "send"
                    /\ calls[c].id \in openRequests' \ openRequests
          /\ (/\ calls[c].pc \in {"await_account", "perm"}
              /\ StepOf(c)
              /\ CellValue(calls[c].cell) = UndefinedAccount)
                 => /\ AbortedUnsent(calls'[c], "NoActiveAccount", INTERNAL_ERROR)
                    /\ UNCHANGED corrVars]_vars

\* a broadcast request issued while the active account was absent has been
\* registered and sent: setActiveAccount installed an account before the
\* permission check of makeRequest read it
C8_BroadcastIssuedAbsentIsSent ==
    \E c \in Calls :
        /\ calls[c].absentAtStart
        /\ calls[c].type = BroadcastRequest
        /\ calls[c].permRead
        /\ calls[c].sent
        /\ calls[c].id \in openRequests

\* a permission request issued without an active account is registered
C8_PermissionRegisteredWithoutAccount ==
    /\ ActiveAccountAbsent
    /\ calls[1].type = PermissionRequest
    /\ calls[1].pc = "send"
    /\ calls[1].id \in openRequests

\* a broadcast request has read no active account and has failed
C8_BroadcastFailed ==
    \E c \in Calls :
        /\ AbortedUnsent(calls[c], "NoActiveAccount", INTERNAL_ERROR)
        /\ calls[c].type = BroadcastRequest
        /\ calls[c].absentAtStart

\* C8 as stated: every request of another kind than permission request that is
\* issued while the active account is absent fails with the no-active-account
\* error, without registering an entry or sending anything
C8_AbsentWhenIssuedFails ==
    \A c \in Calls :
        calls[c].absentAtStart
            => /\ calls[c].id = ForeignId
               /\ ~calls[c].sent
               /\ calls[c].pc = "done" => calls[c].outcome = "NoActiveAccount"

\* C9: when the rate limiter reports that the threshold is exceeded for a call,
\* the call aborts with the rate-limit error and emits LOCAL_RATE_LIMIT_REACHED,
\* and for that call no permission check is made, no id is generated, no entry is
\* added to openRequests and transport.send is not invoked
C9_RateLimitedAborts ==
    [][\A c \in Calls :
          (calls[c].pc = "connect" /\ StepOf(c) /\ calls'[c].limited)
              => /\ AbortedUnsent(calls'[c], "RateLimitReached", LOCAL_RATE_LIMIT_REACHED)
                 /\ ~calls'[c].permRead
                 /\ calls'[c].cell = 0
                 /\ UNCHANGED corrVars]_vars

\* a sign request made with an active account that grants sign has been stopped
\* by the rate limiter
C9_SignRateLimited ==
    \E c \in Calls :
        /\ AbortedUnsent(calls[c], "RateLimitReached", LOCAL_RATE_LIMIT_REACHED)
        /\ calls[c].limited
        /\ calls[c].type = SignPayloadRequest
        /\ SIGN \in CellValue(activeAccount).scopes

\* the required field of the request is missing
MissingInput(call) ==
    /\ call.type \in {SignPayloadRequest, OperationRequest, BroadcastRequest}
    /\ call.input \in {"", Undefined}

\* C10: a request whose required field is missing (requestSignPayload with an
\* empty payload, requestOperation without operation details, requestBroadcast
\* without signed transaction) fails with the invalid-input error before any
\* network interaction: openRequests is unchanged, the rate limiter is not
\* consulted and the transport is neither connected nor sent to by the call
C10_MissingInputFailsFirst ==
    [][\A c \in Calls :
          (calls[c].pc = "idle" /\ StepOf(c) /\ MissingInput(calls'[c]))
              => /\ AbortedUnsent(calls'[c], "InvalidInput", INTERNAL_ERROR)
                 /\ ~calls'[c].rateChecked
                 /\ ~calls'[c].connectedBy
                 /\ calls'[c].cell = 0
                 /\ UNCHANGED corrVars]_vars

\* requestSignPayload with an empty payload has failed, while a request sent
\* before is in the table
C10_EmptyPayloadFailed ==
    \E c \in Calls :
        /\ AbortedUnsent(calls[c], "InvalidInput", INTERNAL_ERROR)
        /\ calls[c].type = SignPayloadRequest
        /\ calls[c].input = ""
        /\ openRequests # {}

(***************************************************************************)
(* The translation of errors (checked under Spec).                         *)
(***************************************************************************)
\* the typed error of a known errorType
TypedError(errorType) ==
    IF errorType = NOT_GRANTED_ERROR THEN "NotGrantedBeaconError" ELSE "UnknownBeaconError"

\* C11: a request rejected with an Error Response that carries an errorType
\* surfaces to the caller of the request method the typed error mapped from the
\* errorType, and the failure notification of the request kind is emitted; an
\* Error Response without errorType is re-raised to the caller unmapped and no
\* failure notification is emitted
C11_TypedErrorSurfaces ==
    \A c \in Calls :
        (calls[c].pc = "done" /\ calls[c].rejectedWith # "none")
            => /\ calls[c].wraps = 0
               /\ IF calls[c].rejectedWith # Undefined
                  THEN /\ calls[c].outcome = TypedError(calls[c].rejectedWith)
                       /\ ErrorEvent(calls[c].type) \in calls[c].events
                  ELSE /\ calls[c].outcome = "ErrorResponse"
                       /\ ErrorEvent(calls[c].type) \notin calls[c].events

\* a sign request was rejected with an Error Response of a known errorType and
\* the request method has thrown
C11_SignRejectedTyped ==
    \E c \in Calls :
        /\ calls[c].pc = "done"
        /\ calls[c].type = SignPayloadRequest
        /\ calls[c].rejectedWith = NOT_GRANTED_ERROR

\* what the request method throws is the promise handleRequestError returns,
\* which rejects with the typed error or with the Error Response, and the
\* notification is emitted for a known errorType only
C11_ErrorSurfacesInsidePromise ==
    \A c \in Calls :
        (calls[c].pc = "done" /\ calls[c].rejectedWith # "none")
            => /\ calls[c].wraps = 1
               /\ IF calls[c].rejectedWith # Undefined
                  THEN /\ calls[c].outcome = TypedError(calls[c].rejectedWith)
                       /\ ErrorEvent(calls[c].type) \in calls[c].events
                  ELSE /\ calls[c].outcome = "ErrorResponse"
                       /\ ErrorEvent(calls[c].type) \notin calls[c].events

(***************************************************************************)
(* Peers and their accounts (checked under SpecPeers).                     *)
(***************************************************************************)
\* none of the stored accounts has one of the peers as its origin
OwnNoAccount(peerIds) == \A a \in accounts : a.origin \notin peerIds

\* the active account is settled and absent
ActiveAccountIsAbsent ==
    /\ isSettled(cells[activeAccount])
    /\ CellValue(activeAccount) = UndefinedAccount

\* the call is removePeer or removeAllPeers
PeerRemoval(call) == call.op \in {"removePeer", "removeAllPeers"}

\* the call of the remover has completed and has removed a peer: the peer is
\* one of those the call handed to the transport, it is out of the registry,
\* and it owned the account that was active when the call was made
RemovedOwnerOfActive ==
    /\ remover.pc = "done"
    /\ PeerRemoval(remover)
    /\ remover.settledAtCall
    /\ remover.activeAtCall # UndefinedAccount
    /\ remover.activeAtCall.origin \in remover.peersToRemove
    /\ remover.activeAtCall.origin \notin peers

\* C12: when a removePeer or removeAllPeers call that has removed the peer
\* owning the active account has completed, the active account is absent;
\* no step of a call whose peers own no account (none now, none when the call
\* selected the accounts to remove) changes the active-account cell, the
\* accounts or the persisted identifier; and a call made over a transport that
\* is not P2P, which has no peer to remove, removes no peer and leaves the
\* active-account cell, the accounts and the persisted identifier as they
\* were, whatever the peer named in the call owns
C12_RemovalClearsOwnedActive ==
    /\ [](RemovedOwnerOfActive => ActiveAccountIsAbsent)
    /\ [][(/\ remover' # remover
            /\ OwnNoAccount(remover'.peersToRemove)
            /\ remover'.accountIdentifiersToRemove = {})
            => UNCHANGED <<gateVars, accounts, storageActive>>]_vars
    /\ [][(/\ remover' # remover
            /\ (PeerRemoval(remover) \/ PeerRemoval(remover'))
            /\ transportType # P2P)
            => UNCHANGED <<peers, gateVars, accounts, storageActive>>]_vars

\* over P2P a removeAllPeers call has completed: p2, which owned the active
\* account when the call was made, is out of the registry, its account is out
\* of the store and the active account is absent
C12_OwnerOfActiveRemoved ==
    /\ RemovedOwnerOfActive
    /\ transportType = P2P
    /\ remover.op = "removeAllPeers"
    /\ remover.activeAtCall = OtherStoredAccount
    /\ "p2" \notin peers
    /\ ActiveAccountIsAbsent
    /\ OtherStoredAccount \notin accounts

(***************************************************************************)
(* The permission exchange (checked under Spec).                           *)
(***************************************************************************)
\* the permission request of call c has resolved
PermissionGranted(c) ==
    /\ calls[c].type = PermissionRequest
    /\ SuccessEvent(PermissionRequest) \in calls[c].events

\* C13: when a permission request has notified its success (which it does
\* before it returns), its Account Record is in the account store and the call
\* has installed it as the active account; as long as setActiveAccount has not
\* been invoked again since, the active-account cell is settled with that
\* account, which is what getActiveAccount yields
C13_GrantInstalledBeforeSuccess ==
    \A c \in Calls :
        PermissionGranted(c)
            => /\ calls[c].account \in accounts
               /\ calls[c].setsAtInstall > 0
               /\ setLog.count = calls[c].setsAtInstall
                    => /\ isSettled(cells[activeAccount])
                       /\ CellValue(activeAccount) = calls[c].account

C13_GrantedAfterStartupLoad ==
    \E c \in Calls :
        /\ PermissionGranted(c)
        /\ calls[c].pc = "done"
        /\ calls[c].setsAtInstall = 2
        /\ setLog.count = 2
        /\ calls[c].account # StoredAccount
        /\ CellValue(activeAccount) = calls[c].account

\* no stored account has the peer as its origin, and the active account, once
\* settled, is not an account of the peer
NoAccountOf(peer) ==
    /\ \A a \in accounts : a.origin # peer
    /\ isSettled(cells[activeAccount]) => CellValue(activeAccount).origin # peer

\* C14: once a peer has been removed, by a removePeer or removeAllPeers call
\* that has completed or by a disconnect of the peer handled in handleResponse,
\* no stored account has that peer as its origin and the active account is not
\* an account of that peer
C14_NoAccountOfRemovedPeer ==
    remover.pc \in {"idle", "done"}
        => \A peer \in Peers \ peers : NoAccountOf(peer)

\* a wallet has disconnected and its account is still stored and active
C14_DisconnectedPeerKeepsAccount ==
    /\ channelClosed
    /\ remover = IdleRemover
    /\ "p1" \notin peers
    /\ StoredAccount \in accounts
    /\ isSettled(cells[activeAccount])
    /\ CellValue(activeAccount) = StoredAccount

(***************************************************************************)
(* The dispatch of matched and unmatched messages (under SpecDispatch).     *)
(***************************************************************************)
\* the messages the transport may deliver
InboundMessages ==
    RepliesFor(Ids \cup {ForeignId}) \cup DisconnectsFrom(Ids \cup {ForeignId}, Peers)

\* the messages the transport may deliver that carry `id`
InboundMessagesWith(id) == RepliesFor({id}) \cup DisconnectsFrom({id}, Peers)

\* this step is handleResponse(message, its connection context)
Dispatches(message) == handleResponse(message, ConnectionContext(message, transportType))

\* C15: the dispatch of a message whose id is in openRequests rejects the
\* future if and only if the message is an Error; a message of any other kind,
\* a Disconnect included, resolves it with (message, connectionContext), and
\* no matched message removes a peer or emits P2P_CHANNEL_CLOSED
C15_MatchedRejectsIffError ==
    [][\A message \in InboundMessages :
          (message.id \in openRequests /\ Dispatches(message))
              => /\ promises'[message.id].status =
                        IF message.type = Error THEN "rejected" ELSE "resolved"
                 /\ (Awaiting(message.id) # {} /\ message.type # Error)
                        => promises'[message.id].result =
                              [message |-> message,
                               connectionInfo |-> ConnectionContext(message, transportType)]
                 /\ (Awaiting(message.id) # {} /\ message.type = Error)
                        => promises'[message.id].result.message = message
                 /\ UNCHANGED <<peers, dispatching, closing, channelClosed>>]_vars

\* a Disconnect that carries a pending id has resolved the future of that id,
\* and no peer was removed
C15_DisconnectResolvedPending ==
    \E id \in Ids :
        /\ promises[id].status = "resolved"
        /\ promises[id].result.message.type = Disconnect
        /\ promises[id].result.connectionInfo.id = "p2"
        /\ id \notin openRequests
        /\ peers = Peers
        /\ ~channelClosed

\* C16: the dispatch of a message whose id is not in openRequests leaves
\* openRequests and every future, the pending ones included, as they were
C16_UnmatchedLeavesTableAlone ==
    [][\A message \in InboundMessages :
          (message.id \notin openRequests /\ Dispatches(message))
              => UNCHANGED <<openRequests, promises, settleOrder>>]_vars

\* a message with an id of no request was dispatched while a request was
\* pending, and that request is still pending
C16_UnmatchedWhilePending ==
    /\ noRequestFound = ForeignId
    /\ \E id \in openRequests : promises[id].status = "pending"

\* C17: the dispatch of a Disconnect whose id is not in openRequests settles
\* nothing and suspends at `await this.transport`; when the call resumes, over
\* the P2P transport it removes the peer message.senderId from the registry and
\* goes on to emit P2P_CHANNEL_CLOSED, which is emitted only after such a
\* removal; over another transport it leaves the registry unchanged and no
\* P2P_CHANNEL_CLOSED is ever emitted
C17_UnmatchedDisconnectClosesChannel ==
    /\ [][\A message \in InboundMessages :
            (/\ message.id \notin openRequests
             /\ message.type = Disconnect
             /\ Dispatches(message))
                => /\ dispatching' = dispatching (+) SetToBag({message.senderId})
                   /\ UNCHANGED <<peers, closing, channelClosed>>]_vars
    /\ [][\A peer \in Peers :
            CopiesIn(peer, dispatching') < CopiesIn(peer, dispatching)
                => /\ dispatching' = dispatching (-) SetToBag({peer})
                   /\ IF transportType = P2P
                      THEN /\ peers' = peers \ {peer}
                           /\ closing' = closing (+) SetToBag({peer})
                           /\ UNCHANGED channelClosed
                      ELSE UNCHANGED <<peers, closing, channelClosed>>]_vars
    /\ [][(\/ channelClosed' # channelClosed
           \/ \E peer \in Peers : CopiesIn(peer, closing') < CopiesIn(peer, closing))
            => /\ channelClosed'
               /\ \E peer \in BagToSet(closing) :
                    /\ peer \notin peers
                    /\ closing' = closing (-) SetToBag({peer})]_vars
    /\ [](transportType # P2P => (peers = Peers /\ closing = EmptyBag /\ ~channelClosed))

\* over P2P wallet p1 has disconnected twice with an id of no request, the
\* second time while the first call was suspended: p1 is gone from the
\* registry, one call has emitted P2P_CHANNEL_CLOSED and the other still awaits
\* the removal
C17_ChannelClosedAfterRemoval ==
    /\ transportType = P2P
    /\ peers = {"p2"}
    /\ dispatching = EmptyBag
    /\ closing = SetToBag({"p1"})
    /\ channelClosed

(***************************************************************************)
(* Registration before sending (checked under Spec).                       *)
(***************************************************************************)
\* transport.send has been called for the request of call c
SendStarted(c) == calls[c].pc \in {"sending", "await_reply"}

\* C18: once makeRequest has called transport.send for an id, whether send
\* has returned or not, the id is in openRequests for as long as its future is
\* unsettled; so the dispatch of a message with that id finds the entry and
\* settles the future the call holds, and never takes the id of a sent request
\* for one without a request
C18_RegisteredBeforeSend ==
    /\ [](\A c \in Calls :
            (SendStarted(c) /\ ~isSettled(promises[calls[c].id]))
                => calls[c].id \in openRequests)
    /\ [][\A c \in Calls :
            (SendStarted(c) /\ ~isSettled(promises[calls[c].id]))
                => \A message \in InboundMessagesWith(calls[c].id) :
                    Dispatches(message)
                        => /\ openRequestsGet(message.id) = calls[c].id
                           /\ c \in Awaiting(calls[c].id)
                           /\ isSettled(promises'[calls[c].id])
                           /\ promises'[calls[c].id].result.message = message
                           /\ noRequestFound' = noRequestFound]_vars

\* the reply has arrived and has settled the future while transport.send has
\* not returned yet
C18_RepliedBeforeSendReturns ==
    \E c \in Calls :
        /\ calls[c].pc = "sending"
        /\ promises[calls[c].id].status = "resolved"
        /\ promises[calls[c].id].result.message.id = calls[c].id
        /\ calls[c].id \notin openRequests

(***************************************************************************)
(* The steps of setActiveAccount (checked under SpecGate).                 *)
(***************************************************************************)
\* the setActiveAccount invocations that have not emitted their event yet
SetsInFlight ==
    (IF loader.pc \in {"set_storage", "set_emit"} THEN 1 ELSE 0)
        + (IF setter.pc \in {"set_storage", "set_emit"} THEN 1 ELSE 0)

\* C19: a setActiveAccount(v) invocation, of the application or of the startup
\* load, first updates the cell (the current cell is settled with v, nothing is
\* written or emitted yet), then writes the identifier of v, or the absence
\* marker, to the store, then emits ACTIVE_ACCOUNT_SET once and completes; so
\* every completed invocation has made its write and has emitted exactly one
\* event
C19_SetWritesThenEmits ==
    /\ [](setLog.emitted = setLog.count - SetsInFlight)
    /\ [][(setter' # setter /\ setter.pc = "idle")
            => /\ setter'.pc = "set_storage"
               /\ isSettled(cells'[activeAccount'])
               /\ CellValue(activeAccount)' = setter'.account
               /\ UNCHANGED storageActive
               /\ setLog'.emitted = setLog.emitted]_vars
    /\ [][(setter' # setter /\ setter.pc = "set_storage")
            => /\ setter'.pc = "set_emit"
               /\ storageActive' =
                    IF setter.account = UndefinedAccount THEN Undefined
                    ELSE setter.account.accountIdentifier
               /\ setLog'.emitted = setLog.emitted]_vars
    /\ [][(setter' # setter /\ setter.pc = "set_emit")
            => /\ setter'.pc = "idle"
               /\ setLog'.emitted = setLog.emitted + 1
               /\ UNCHANGED storageActive]_vars
    /\ [][(loader' # loader /\ loader.pc = "set_storage")
            => /\ loader'.pc = "set_emit"
               /\ storageActive' =
                    IF loader.account = UndefinedAccount THEN Undefined
                    ELSE loader.account.accountIdentifier
               /\ setLog'.emitted = setLog.emitted]_vars
    /\ [][(loader' # loader /\ loader.pc = "set_emit")
            => /\ loader'.pc = "done"
               /\ setLog'.emitted = setLog.emitted + 1
               /\ UNCHANGED storageActive]_vars

\* the startup load has set the absent account and the application has then
\* set the stored one: both invocations have completed, the identifier of the
\* latter is in the store and two events have been emitted
C19_TwoSetsCompleted ==
    /\ loader.pc = "done"
    /\ setter.pc = "idle"
    /\ setLog.count = 2
    /\ setLog.emitted = 2
    /\ setLog.first = UndefinedAccount
    /\ setLog.last = StoredAccount
    /\ storageActive = StoredAccount.accountIdentifier

(***************************************************************************)
(* The settlement of the first cell (checked under SpecGateFair).          *)
(***************************************************************************)
\* the storage read of the active-account key has completed
StorageReadCompleted == loader.pc # "get"

\* C20: the cell created at construction is unsettled; once the storage read
\* of the active-account key has completed, with an identifier, with nothing or
\* failing, the current cell eventually is settled, the startup load settles
\* with the stored account of that identifier or with the absent account, and
\* every getActiveAccount() caller that is suspended eventually returns
C20_StartupLoadSettlesCell ==
    /\ cells[1].status = "pending"
    /\ StorageReadCompleted ~> isSettled(cells[activeAccount])
    /\ [](loader.pc \in {"set_storage", "set_emit", "done"}
            => \/ loader.account = UndefinedAccount
               \/ loader.account.accountIdentifier = loader.id)
    /\ \A r \in Readers :
            (StorageReadCompleted /\ readers[r].pc = "waiting") ~> (readers[r].pc = "done")

\* a caller that was suspended on the unsettled cell has returned with the
\* stored account the startup load settled the cell with
C20_SuspendedCallerReturned ==
    \E r \in Readers :
        /\ readers[r].pc = "done"
        /\ ~readers[r].sawSettled
        /\ setLog.count = 1
        /\ loader.pc \in {"set_storage", "set_emit", "done"}
        /\ loader.account = StoredAccount
        /\ readers[r].result = StoredAccount

(***************************************************************************)
(* setActiveAccount during the startup load (checked under SpecGate).      *)
(***************************************************************************)
\* the application has called setActiveAccount(X) once, while the startup load
\* was in flight, and both have finished: of the two invocations the first one
\* is not the load's, whose value is another one
EarlySetAndLoadFinished ==
    /\ loader.pc = "done"
    /\ setter.pc = "idle"
    /\ setLog.count = 2
    /\ setLog.first # loader.account

\* C21: when the application has called setActiveAccount(X) on the unsettled
\* cell and the startup load has completed afterwards, the active account is X
\* and the persisted identifier is that of X
C21_EarlySetSurvivesLoad ==
    EarlySetAndLoadFinished
        => /\ isSettled(cells[activeAccount])
           /\ CellValue(activeAccount) = setLog.first
           /\ storageActive = StoredIdentifier(setLog.first)

\* the application has set the stored account while the load was in flight;
\* the load, which found no identifier, has then replaced the cell: the
\* active account and the persisted identifier are absent
C21_LoadReplacedEarlySet ==
    /\ EarlySetAndLoadFinished
    /\ setLog.first = StoredAccount
    /\ loader.account = UndefinedAccount
    /\ isSettled(cells[activeAccount])
    /\ CellValue(activeAccount) = UndefinedAccount
    /\ storageActive = Undefined

====
